---- MODULE Spec2Model ----
(***************************************************************************)
(* Model of the SSReports back-end jobs:                                   *)
(*   backend/hourly-sync.py  - the hourly MySQL -> D1 sync cycle (main),   *)
(*   backend/sync-data.py    - the full export (flags, geographic          *)
(*                             hotspots).                                  *)
(* The source store (MySQL) and the edge store (D1) are state; every       *)
(* remote call execute_d1_query is one step whose answer is success=true,  *)
(* success=false, or an exception (Crash).                                 *)
(***************************************************************************)
EXTENDS Integers, Sequences, FiniteSets, Bags, TLC

\* ---------------------------------------------------------------- bounds
MaxCheckins == 2
MaxResponses == 1
MaxShops == 1
MaxTime == 3
MaxCycles == 2
MaxFaults == 1

\* ------------------------------------------------------ program constants
\* since_hours=2 of sync_new_checkins / sync_new_visit_responses
SinceHours == 2
\* LIMIT 100 of the hotspot query
HotspotLimit == 100
HoursPerDay == 24
DaysPerWeek == 7

Agents == {1, 2}
Procs == {1, 2}

VARIABLES
    now,            \* the orchestrator's wall clock, in hours
    srcCheckins,    \* source table checkins: id (index) -> [agent, ts]
    srcResponses,   \* source table visit_responses: id -> [checkin_id, payload, created_at]
    srcShops,       \* source table shops: id -> version of the shop's data
    dCheckins,      \* destination table checkins: id -> row
    dResponses,     \* destination table visit_responses: id -> row with flags
    dShops,         \* destination table shops: id -> version
    dPerf,          \* destination table agent_performance (a bag of rows)
    dHour,          \* destination table checkins_by_hour (a bag of rows)
    dDay,           \* destination table checkins_by_day (a bag of rows)
    proc,           \* per running script: its position and local variables
    cycles,         \* number of cycles started so far
    faults,         \* number of calls that reported success=false or raised so far
    geoRows,        \* export_data: the check-ins' (latitude, longitude) pairs
    geoData         \* export_data: geo_data as written to geographic_hotspots.json

vars == <<now, srcCheckins, srcResponses, srcShops, dCheckins, dResponses, dShops,
          dPerf, dHour, dDay, proc, cycles, faults, geoRows, geoData>>

srcVars == <<srcCheckins, srcResponses, srcShops>>
derivedVars == <<dPerf, dHour, dDay>>
geoVars == <<geoRows, geoData>>

\* ------------------------------------------------------------- helpers
Range(s) == {s[i] : i \in DOMAIN s}

\* INSERT OR REPLACE INTO t ... keyed by id
Upsert(t, id, row) == (id :> row) @@ t

\* an INSERT that adds nothing
InsertNothing(t, row) == t

\* INSERT INTO t ... (no key known: the row is added)
InsertRow(t, row) == t (+) SetToBag({row})

\* ---------------------------------------------------- visit-response payload
(* A payload (column visit_responses.responses) is described by what the code  *)
(* looks at: whether json.loads accepts the text and yields an object, the     *)
(* value stored under "conversion" and under "bettingInfo", and whether the    *)
(* raw text contains "converted": "yes" or "converted":"yes" (the source's     *)
(* LIKE patterns). A nested value is                                           *)
(*   "absent"  - the key is missing,                                           *)
(*   "scalar"  - present but not an object (string, number, null, list),       *)
(*   "none"    - an object without the inner key,                              *)
(*   "yes"     - an object whose inner key is "yes",                           *)
(*   "no"      - an object whose inner key is another value.                   *)
NestedVals == {"absent", "scalar", "none", "yes", "no"}

Payloads ==
    [json : {"object"}, conversion : NestedVals, bettingInfo : NestedVals, like : BOOLEAN]
    \cup [json : {"invalid", "scalar"}, conversion : {"absent"}, bettingInfo : {"absent"},
          like : BOOLEAN]

\* the payload the field application writes in the sync-cycle specification
CyclePayloads ==
    { [json |-> "object", conversion |-> "yes", bettingInfo |-> "no", like |-> TRUE] }

\* data.get(key, {}).get(inner) == 'yes', or "raise" when .get is not defined
\* on the value (AttributeError)
NestedIsYes(v) ==
    CASE v = "scalar" -> "raise"
      [] v = "yes"    -> "true"
      [] OTHER        -> "false"

\* ParseFlags with one try block per flag: each flag is derived on its own
ParseFlagsIndependent(p) ==
    IF p.json # "object" THEN [converted |-> 0, betting |-> 0]
    ELSE [converted |-> IF p.conversion = "yes" THEN 1 ELSE 0,
          betting   |-> IF p.bettingInfo = "yes" THEN 1 ELSE 0]

\* the try/except block deriving converted and betting
ParseFlags(p) ==
    IF p.json # "object"
    THEN [converted |-> 0, betting |-> 0]      \* json.loads or data.get raised
    ELSE LET c == NestedIsYes(p.conversion)
             b == NestedIsYes(p.bettingInfo)
         IN  IF c = "raise" \/ b = "raise"
             THEN [converted |-> 0, betting |-> 0]
             ELSE [converted |-> IF c = "true" THEN 1 ELSE 0,
                   betting   |-> IF b = "true" THEN 1 ELSE 0]

\* vr.responses LIKE '%"converted": "yes"%' OR vr.responses LIKE '%"converted":"yes"%'
LikeConverted(p) == p.like

\* ------------------------------------------------------ source queries
\* SELECT id, ... FROM checkins (the rows of the source table, with their id)
CheckinRows(chk) == {[id |-> i, agent |-> chk[i].agent, ts |-> chk[i].ts] : i \in DOMAIN chk}

\* SELECT id, ... FROM visit_responses
ResponseRows(rsp) ==
    {[id |-> i, checkin_id |-> rsp[i].checkin_id, payload |-> rsp[i].payload,
      created_at |-> rsp[i].created_at] : i \in DOMAIN rsp}

\* since_time = datetime.now() - timedelta(hours=since_hours)
SinceTime(t) == t - SinceHours

\* InWindow with a strict comparison
InWindowStrict(ts, since) == ts > since

\* WHERE timestamp >= '{since_str}'
InWindow(ts, since) == ts >= since

\* users.name of the agent (LEFT JOIN users u ON c.agent_id = u.id): agent 2 has
\* no users row
UserName(a) == IF a = 1 THEN "agent one" ELSE "NULL"

\* HOUR(timestamp), DAYOFWEEK(timestamp), DAYNAME(timestamp); hour 0 of the model's
\* clock is a Sunday midnight
HourOf(ts) == ts % HoursPerDay
DayNum(ts) == ((ts \div HoursPerDay) % DaysPerWeek) + 1
DayName(d) ==
    <<"Sunday", "Monday", "Tuesday", "Wednesday", "Thursday", "Friday", "Saturday">>[d]

\* (x / y).round(): the nearest integer to x / y, halves to the even neighbour
RoundHalfEven(x, y) ==
    LET q == x \div y
        r == x % y
    IN  IF 2 * r < y THEN q
        ELSE IF 2 * r > y THEN q + 1
        ELSE IF q % 2 = 0 THEN q ELSE q + 1

\* (conversions / checkin_count * 100).round(2), in hundredths of a percent
ConversionRate(conversions, checkin_count) == RoundHalfEven(conversions * 10000, checkin_count)

\* SELECT c.agent_id, COUNT(*) FROM checkins c ... GROUP BY c.agent_id
CheckinCount(chk, a) == Cardinality({i \in DOMAIN chk : chk[i].agent = a})

\* SELECT c.agent_id, COUNT(*) AS conversions FROM checkins c JOIN visit_responses vr
\* ON c.id = vr.checkin_id WHERE vr.responses LIKE ... GROUP BY c.agent_id
ConversionsDf(chk, rsp) ==
    LET joined(a) == {r \in DOMAIN rsp : /\ rsp[r].checkin_id \in DOMAIN chk
                                         /\ chk[rsp[r].checkin_id].agent = a
                                         /\ LikeConverted(rsp[r].payload)}
    IN  [a \in {x \in Agents : joined(x) # {}} |-> Cardinality(joined(a))]

\* AgentPerfRows with merge(how='inner'): only the agents of conversions_df
AgentPerfRowsInner(chk, rsp) ==
    LET conv == ConversionsDf(chk, rsp)
    IN  {[agent_id |-> a, agent_name |-> UserName(a),
          checkin_count |-> CheckinCount(chk, a),
          conversions |-> conv[a],
          conversion_rate |-> ConversionRate(conv[a], CheckinCount(chk, a))]
         : a \in {x \in DOMAIN conv : CheckinCount(chk, x) > 0}}

\* agent_perf after merge(how='left'), fillna(0) and the conversion_rate column
AgentPerfRows(chk, rsp) ==
    LET conv == ConversionsDf(chk, rsp)
        filled(a) == IF a \in DOMAIN conv THEN conv[a] ELSE 0
    IN  {[agent_id |-> a, agent_name |-> UserName(a),
          checkin_count |-> CheckinCount(chk, a),
          conversions |-> filled(a),
          conversion_rate |-> ConversionRate(filled(a), CheckinCount(chk, a))]
         : a \in {x \in Agents : CheckinCount(chk, x) > 0}}

\* SELECT HOUR(timestamp) AS hour, COUNT(*) AS count FROM checkins GROUP BY HOUR(timestamp)
HourlyRows(chk) ==
    {[hour |-> h, count |-> Cardinality({i \in DOMAIN chk : HourOf(chk[i].ts) = h})]
     : h \in {HourOf(chk[i].ts) : i \in DOMAIN chk}}

\* SELECT DAYOFWEEK(timestamp), DAYNAME(timestamp), COUNT(*) FROM checkins GROUP BY ...
DailyRows(chk) ==
    {[day_num |-> d, day_name |-> DayName(d),
      count |-> Cardinality({i \in DOMAIN chk : DayNum(chk[i].ts) = d})]
     : d \in {DayNum(chk[i].ts) : i \in DOMAIN chk}}

RECURSIVE KeyedToSeq(_)
\* the rows of a data frame in the order of the query's ORDER BY: a set of
\* <<key, row>> pairs with distinct keys, as the sequence of rows by ascending key
KeyedToSeq(keyed) ==
    IF keyed = {} THEN <<>>
    ELSE LET m == CHOOSE x \in keyed : \A y \in keyed : x[1] <= y[1]
         IN  <<m[2]>> \o KeyedToSeq(keyed \ {m})

\* ORDER BY checkin_count DESC (agents with equal counts in agent_id order)
PerfKey(r) == (MaxCheckins + 2 - r.checkin_count) * (Cardinality(Agents) + 1) + r.agent_id
PerfSeq(rows) == KeyedToSeq({<<PerfKey(r), r>> : r \in rows})
\* ORDER BY hour
HourSeq(rows) == KeyedToSeq({<<r.hour, r>> : r \in rows})
\* ORDER BY day_num
DaySeq(rows) == KeyedToSeq({<<r.day_num, r>> : r \in rows})
\* rows of a table read without ORDER BY, taken in identifier order
IdSeq(rows) == KeyedToSeq({<<r.id, r>> : r \in rows})

\* ------------------------------------------------------------ the scripts
Running == {"upsert_checkins", "read_responses", "upsert_responses", "select_shops",
            "upsert_shops", "decide", "perf_delete", "perf_insert", "hour_delete",
            "hour_insert", "day_delete", "day_insert"}
Rebuilding == {"perf_delete", "perf_insert", "hour_delete", "hour_insert", "day_delete",
               "day_insert"}
Stopped == {"idle", "done", "failed"}

\* the destination's contents
Dest == <<dCheckins, dResponses, dShops, dPerf, dHour, dDay>>

(* The local variables of one run of main. pc is its position: "done" is the    *)
(* state after "Sync complete" (exit code 0), "failed" after sys.exit(1).       *)
(* History of the run, kept for the properties: tCheckins and tResponses (the   *)
(* clock when each sync function computed since_time), candC, candR, candS (the *)
(* identifiers of the candidate rows each read), selectOk (the answer to SELECT *)
(* id FROM shops), tries (every upsert call and its answer), fails (the calls   *)
(* that answered success=false), aggCalls and aggFails (the statements issued   *)
(* against derived tables, and how many of them answered success=false), at     *)
(* (where it raised), and of the run before it: prevPc, prevAt (where it        *)
(* raised), prevDest (the destination it left), prevFails; srcChanged (the      *)
(* source was written since this run read it) and srcChangedBefore (it was      *)
(* written between the run before and this one).                                *)
FreshProc ==
    [pc |-> "idle", rows |-> <<>>, count |-> 0,
     nCheckins |-> 0, nResponses |-> 0, nShops |-> 0,
     tCheckins |-> 0, tResponses |-> 0,
     candC |-> {}, candR |-> {}, candS |-> {}, selectOk |-> TRUE,
     tries |-> <<>>, fails |-> 0, aggCalls |-> 0, aggFails |-> 0, at |-> "idle",
     prevPc |-> "idle", prevAt |-> "idle", prevDest |-> <<>>, prevFails |-> 0,
     srcChanged |-> FALSE, srcChangedBefore |-> FALSE]

\* the answers a remote call can give: success=true or, while the fault budget
\* lasts, success=false
Outcomes == IF faults < MaxFaults THEN {TRUE, FALSE} ELSE {TRUE}

Fault(ok) == IF ok THEN 0 ELSE 1

\* LoopRest of a loop that stops at the first success=false
LoopRestAbort(rows, ok) == IF ok THEN Tail(rows) ELSE <<>>

\* the rows left to the loop after a call that answered ok: the loop goes on
LoopRest(rows, ok) == Tail(rows)

\* if result.get('success'): count += 1
Counted(count, ok) == count + (IF ok THEN 1 ELSE 0)

\* main, up to the query of sync_new_checkins
ReadCheckins(p) ==
    /\ proc[p].pc \in Stopped
    /\ cycles < MaxCycles
    /\ cycles' = cycles + 1
    /\ LET cand == {r \in CheckinRows(srcCheckins) : InWindow(r.ts, SinceTime(now))}
           old == proc[p]
       IN  proc' = [proc EXCEPT ![p] =
                [FreshProc EXCEPT
                    !.pc = IF cand = {} THEN "read_responses" ELSE "upsert_checkins",
                    !.rows = IdSeq(cand),
                    !.tCheckins = now,
                    !.candC = {r.id : r \in cand},
                    !.prevPc = old.pc,
                    !.prevAt = old.at,
                    !.prevDest = Dest,
                    !.prevFails = old.fails,
                    !.srcChangedBefore = old.srcChanged]]
    /\ UNCHANGED <<now, srcVars, dCheckins, dResponses, dShops, derivedVars, faults, geoVars>>

\* one pass of the loop of sync_new_checkins; the return after the last row
UpsertCheckin(p) ==
    /\ proc[p].pc = "upsert_checkins"
    /\ \E ok \in Outcomes :
         LET row == Head(proc[p].rows)
             rest == LoopRest(proc[p].rows, ok)
             cnt == Counted(proc[p].count, ok)
         IN  /\ dCheckins' = IF ok
                             THEN Upsert(dCheckins, row.id, [agent |-> row.agent, ts |-> row.ts])
                             ELSE dCheckins
             /\ faults' = faults + Fault(ok)
             /\ proc' = [proc EXCEPT ![p].rows = rest,
                                     ![p].count = cnt,
                                     ![p].fails = @ + Fault(ok),
                                     ![p].tries = Append(@, [kind |-> "checkin", id |-> row.id, ok |-> ok]),
                                     ![p].nCheckins = IF rest = <<>> THEN cnt ELSE @,
                                     ![p].pc = IF rest = <<>> THEN "read_responses" ELSE @]
    /\ UNCHANGED <<now, srcVars, dResponses, dShops, derivedVars, cycles, geoVars>>

\* the query of sync_new_visit_responses
ReadResponses(p) ==
    /\ proc[p].pc = "read_responses"
    /\ LET cand == {r \in ResponseRows(srcResponses) : InWindow(r.created_at, SinceTime(now))}
       IN  proc' = [proc EXCEPT ![p].pc = IF cand = {} THEN "select_shops" ELSE "upsert_responses",
                                ![p].rows = IdSeq(cand),
                                ![p].count = 0,
                                ![p].tResponses = now,
                                ![p].candR = {r.id : r \in cand}]
    /\ UNCHANGED <<now, srcVars, dCheckins, dResponses, dShops, derivedVars, cycles, faults, geoVars>>

\* the row written for a visit response
ResponseRow(row) ==
    [checkin_id |-> row.checkin_id, payload |-> row.payload,
     converted |-> ParseFlags(row.payload).converted,
     already_betting |-> ParseFlags(row.payload).betting,
     created_at |-> row.created_at]

\* one pass of the loop of sync_new_visit_responses; the return after the last row
UpsertResponse(p) ==
    /\ proc[p].pc = "upsert_responses"
    /\ \E ok \in Outcomes :
         LET row == Head(proc[p].rows)
             rest == LoopRest(proc[p].rows, ok)
             cnt == Counted(proc[p].count, ok)
         IN  /\ dResponses' = IF ok THEN Upsert(dResponses, row.id, ResponseRow(row))
                              ELSE dResponses
             /\ faults' = faults + Fault(ok)
             /\ proc' = [proc EXCEPT ![p].rows = rest,
                                     ![p].count = cnt,
                                     ![p].fails = @ + Fault(ok),
                                     ![p].tries = Append(@, [kind |-> "response", id |-> row.id, ok |-> ok]),
                                     ![p].nResponses = IF rest = <<>> THEN cnt ELSE @,
                                     ![p].pc = IF rest = <<>> THEN "select_shops" ELSE @]
    /\ UNCHANGED <<now, srcVars, dCheckins, dShops, derivedVars, cycles, geoVars>>

\* existing_ids when the SELECT answers success=true / success=false
ExistingIds(ok, shops) == IF ok THEN DOMAIN shops ELSE {}

\* NewShops without the set difference: every source shop
NewShopsAll(shops, existing) == DOMAIN shops

\* shops[~shops['id'].isin(existing_ids)]
NewShops(shops, existing) == {i \in DOMAIN shops : i \notin existing}

\* sync_new_shops up to the loop: both reads and new_shops
SelectShops(p) ==
    /\ proc[p].pc = "select_shops"
    /\ \E ok \in Outcomes :
         LET new == NewShops(srcShops, ExistingIds(ok, dShops))
         IN  /\ faults' = faults + Fault(ok)
             /\ proc' = [proc EXCEPT ![p].pc = IF new = {} THEN "decide" ELSE "upsert_shops",
                                     ![p].rows = IdSeq({[id |-> i, ver |-> srcShops[i]] : i \in new}),
                                     ![p].count = 0,
                                     ![p].selectOk = ok,
                                     ![p].fails = @ + Fault(ok),
                                     ![p].candS = new]
    /\ UNCHANGED <<now, srcVars, dCheckins, dResponses, dShops, derivedVars, cycles, geoVars>>

\* one pass of the loop of sync_new_shops; the return after the last row
UpsertShop(p) ==
    /\ proc[p].pc = "upsert_shops"
    /\ \E ok \in Outcomes :
         LET row == Head(proc[p].rows)
             rest == LoopRest(proc[p].rows, ok)
             cnt == Counted(proc[p].count, ok)
         IN  /\ dShops' = IF ok THEN Upsert(dShops, row.id, row.ver) ELSE dShops
             /\ faults' = faults + Fault(ok)
             /\ proc' = [proc EXCEPT ![p].rows = rest,
                                     ![p].count = cnt,
                                     ![p].fails = @ + Fault(ok),
                                     ![p].tries = Append(@, [kind |-> "shop", id |-> row.id, ok |-> ok]),
                                     ![p].nShops = IF rest = <<>> THEN cnt ELSE @,
                                     ![p].pc = IF rest = <<>> THEN "decide" ELSE @]
    /\ UNCHANGED <<now, srcVars, dCheckins, dResponses, derivedVars, cycles, geoVars>>

\* RebuildNeeded of a main that rebuilds in every cycle
RebuildNeededAny(checkins_count, responses_count) == TRUE

\* if checkins_count > 0 or responses_count > 0
RebuildNeeded(checkins_count, responses_count) == checkins_count > 0 \/ responses_count > 0

\* main's test after the three sync functions; update_aggregates up to its
\* first DELETE, or "Sync complete"
Decide(p) ==
    /\ proc[p].pc = "decide"
    /\ proc' = IF RebuildNeeded(proc[p].nCheckins, proc[p].nResponses)
               THEN [proc EXCEPT ![p].pc = "perf_delete",
                                 ![p].rows = PerfSeq(AgentPerfRows(srcCheckins, srcResponses))]
               ELSE [proc EXCEPT ![p].pc = "done"]
    /\ UNCHANGED <<now, srcVars, dCheckins, dResponses, dShops, derivedVars, cycles, faults, geoVars>>

\* a DELETE that is skipped
DeletedNothing(t) == t

\* what DELETE FROM t leaves of table t
Deleted(t) == EmptyBag

\* the bookkeeping of one statement against a derived table
AggStep(p, ok, pcNext, rowsNext) ==
    [proc EXCEPT ![p].pc = pcNext,
                 ![p].rows = rowsNext,
                 ![p].fails = @ + Fault(ok),
                 ![p].aggCalls = @ + 1,
                 ![p].aggFails = @ + Fault(ok)]

\* execute_d1_query("DELETE FROM agent_performance"); its answer is not looked at
PerfDelete(p) ==
    /\ proc[p].pc = "perf_delete"
    /\ \E ok \in Outcomes :
         /\ dPerf' = IF ok THEN Deleted(dPerf) ELSE dPerf
         /\ faults' = faults + Fault(ok)
         /\ proc' = IF proc[p].rows = <<>>
                    THEN AggStep(p, ok, "hour_delete", HourSeq(HourlyRows(srcCheckins)))
                    ELSE AggStep(p, ok, "perf_insert", proc[p].rows)
    /\ UNCHANGED <<now, srcVars, dCheckins, dResponses, dShops, dHour, dDay, cycles, geoVars>>

\* one pass of the loop over agent_perf; after the last row, the hourly query
PerfInsert(p) ==
    /\ proc[p].pc = "perf_insert"
    /\ \E ok \in Outcomes :
         LET rest == Tail(proc[p].rows)
         IN  /\ dPerf' = IF ok THEN InsertRow(dPerf, Head(proc[p].rows)) ELSE dPerf
             /\ faults' = faults + Fault(ok)
             /\ proc' = IF rest = <<>>
                        THEN AggStep(p, ok, "hour_delete", HourSeq(HourlyRows(srcCheckins)))
                        ELSE AggStep(p, ok, "perf_insert", rest)
    /\ UNCHANGED <<now, srcVars, dCheckins, dResponses, dShops, dHour, dDay, cycles, geoVars>>

\* execute_d1_query("DELETE FROM checkins_by_hour")
HourDelete(p) ==
    /\ proc[p].pc = "hour_delete"
    /\ \E ok \in Outcomes :
         /\ dHour' = IF ok THEN Deleted(dHour) ELSE dHour
         /\ faults' = faults + Fault(ok)
         /\ proc' = IF proc[p].rows = <<>>
                    THEN AggStep(p, ok, "day_delete", DaySeq(DailyRows(srcCheckins)))
                    ELSE AggStep(p, ok, "hour_insert", proc[p].rows)
    /\ UNCHANGED <<now, srcVars, dCheckins, dResponses, dShops, dPerf, dDay, cycles, geoVars>>

\* one pass of the loop over hourly; after the last row, the daily query
HourInsert(p) ==
    /\ proc[p].pc = "hour_insert"
    /\ \E ok \in Outcomes :
         LET rest == Tail(proc[p].rows)
         IN  /\ dHour' = IF ok THEN InsertRow(dHour, Head(proc[p].rows)) ELSE dHour
             /\ faults' = faults + Fault(ok)
             /\ proc' = IF rest = <<>>
                        THEN AggStep(p, ok, "day_delete", DaySeq(DailyRows(srcCheckins)))
                        ELSE AggStep(p, ok, "hour_insert", rest)
    /\ UNCHANGED <<now, srcVars, dCheckins, dResponses, dShops, dPerf, dDay, cycles, geoVars>>

\* execute_d1_query("DELETE FROM checkins_by_day")
DayDelete(p) ==
    /\ proc[p].pc = "day_delete"
    /\ \E ok \in Outcomes :
         /\ dDay' = IF ok THEN Deleted(dDay) ELSE dDay
         /\ faults' = faults + Fault(ok)
         /\ proc' = IF proc[p].rows = <<>>
                    THEN AggStep(p, ok, "done", <<>>)
                    ELSE AggStep(p, ok, "day_insert", proc[p].rows)
    /\ UNCHANGED <<now, srcVars, dCheckins, dResponses, dShops, dPerf, dHour, cycles, geoVars>>

\* one pass of the loop over daily; after the last row, "Aggregates updated" and
\* "Sync complete"
DayInsert(p) ==
    /\ proc[p].pc = "day_insert"
    /\ \E ok \in Outcomes :
         LET rest == Tail(proc[p].rows)
         IN  /\ dDay' = IF ok THEN InsertRow(dDay, Head(proc[p].rows)) ELSE dDay
             /\ faults' = faults + Fault(ok)
             /\ proc' = IF rest = <<>>
                        THEN AggStep(p, ok, "done", <<>>)
                        ELSE AggStep(p, ok, "day_insert", rest)
    /\ UNCHANGED <<now, srcVars, dCheckins, dResponses, dShops, dPerf, dHour, cycles, geoVars>>

\* a call raises (the request or a source query fails): main's except clause
\* logs the error and exits with code 1; a raise counts against the fault budget
Crash(p) ==
    /\ proc[p].pc \in Running
    /\ faults < MaxFaults
    /\ faults' = faults + 1
    /\ proc' = [proc EXCEPT ![p].pc = "failed", ![p].at = proc[p].pc]
    /\ UNCHANGED <<now, srcVars, dCheckins, dResponses, dShops, derivedVars, cycles, geoVars>>

\* ------------------------------------------------------- the environment
\* the source is written by the field application between two runs
Quiet == cycles < MaxCycles /\ \A p \in Procs : proc[p].pc \in Stopped

SourceWritten == [p \in Procs |-> [proc[p] EXCEPT !.srcChanged = TRUE]]

InsertCheckin ==
    /\ Quiet
    /\ Len(srcCheckins) < MaxCheckins
    /\ \E a \in Agents : srcCheckins' = Append(srcCheckins, [agent |-> a, ts |-> now])
    /\ proc' = SourceWritten
    /\ UNCHANGED <<now, srcResponses, srcShops, dCheckins, dResponses, dShops, derivedVars,
                   cycles, faults, geoVars>>

InsertResponse ==
    /\ Quiet
    /\ Len(srcResponses) < MaxResponses
    /\ \E c \in DOMAIN srcCheckins, pl \in CyclePayloads :
         srcResponses' = Append(srcResponses, [checkin_id |-> c, payload |-> pl, created_at |-> now])
    /\ proc' = SourceWritten
    /\ UNCHANGED <<now, srcCheckins, srcShops, dCheckins, dResponses, dShops, derivedVars,
                   cycles, faults, geoVars>>

InsertShop ==
    /\ Quiet
    /\ Len(srcShops) < MaxShops
    /\ srcShops' = Append(srcShops, 0)
    /\ proc' = SourceWritten
    /\ UNCHANGED <<now, srcCheckins, srcResponses, dCheckins, dResponses, dShops, derivedVars,
                   cycles, faults, geoVars>>

\* the clock's unit is the hour: a run is short beside it
Tick ==
    /\ Quiet
    /\ now < MaxTime
    /\ now' = now + 1
    /\ UNCHANGED <<srcVars, dCheckins, dResponses, dShops, derivedVars, proc, cycles, faults, geoVars>>

\* ------------------------------------------------ the sync-cycle specification
Init ==
    /\ now = 0
    /\ srcCheckins = <<>> /\ srcResponses = <<>> /\ srcShops = <<>>
    /\ dCheckins = <<>> /\ dResponses = <<>> /\ dShops = <<>>
    /\ dPerf = EmptyBag /\ dHour = EmptyBag /\ dDay = EmptyBag
    /\ proc = [p \in Procs |-> FreshProc]
    /\ cycles = 0
    /\ faults = 0
    /\ geoRows = <<>> /\ geoData = <<>>

Main(p) ==
    \/ ReadCheckins(p) \/ UpsertCheckin(p)
    \/ ReadResponses(p) \/ UpsertResponse(p)
    \/ SelectShops(p) \/ UpsertShop(p)
    \/ Decide(p)
    \/ PerfDelete(p) \/ PerfInsert(p)
    \/ HourDelete(p) \/ HourInsert(p)
    \/ DayDelete(p) \/ DayInsert(p)
    \/ Crash(p)

\* one scheduled invocation at a time
Next ==
    \/ Main(1)
    \/ InsertCheckin \/ InsertResponse \/ InsertShop
    \/ Tick

Spec == Init /\ [][Next]_vars

\* ------------------------------------------- sync_new_shops on its own
MaxShopIds == 4

\* any source shops table and any destination holding some of its shops, the
\* run standing at the entry of sync_new_shops
InitShops ==
    /\ now = 0
    /\ srcCheckins = <<>> /\ srcResponses = <<>>
    /\ \E n \in 0..MaxShopIds : srcShops \in [1..n -> {0, 1}]
    /\ dCheckins = <<>> /\ dResponses = <<>>
    /\ \E ids \in SUBSET (1..MaxShopIds) :
          /\ ids \subseteq DOMAIN srcShops
          /\ dShops \in [ids -> {0, 1}]
    /\ dPerf = EmptyBag /\ dHour = EmptyBag /\ dDay = EmptyBag
    /\ proc = [p \in Procs |-> IF p = 1
                                THEN [FreshProc EXCEPT !.pc = "select_shops",
                                                       !.prevDest = <<dCheckins, dResponses, dShops,
                                                                      dPerf, dHour, dDay>>]
                                ELSE FreshProc]
    /\ cycles = 1
    /\ faults = 0
    /\ geoRows = <<>> /\ geoData = <<>>

NextShops == SelectShops(1) \/ UpsertShop(1)

SpecShops == InitShops /\ [][NextShops]_vars

\* --------------------------------- sync_new_visit_responses on its own
\* any payloads in the source's visit responses, the run standing at the entry
\* of sync_new_visit_responses
InitFlags ==
    /\ now = 0
    /\ srcCheckins = <<[agent |-> 1, ts |-> 0]>>
    /\ \E n \in 1..MaxResponses :
          srcResponses \in [1..n -> [checkin_id : {1}, payload : Payloads, created_at : {0}]]
    /\ srcShops = <<>>
    /\ dCheckins = <<>> /\ dResponses = <<>> /\ dShops = <<>>
    /\ dPerf = EmptyBag /\ dHour = EmptyBag /\ dDay = EmptyBag
    /\ proc = [p \in Procs |-> IF p = 1 THEN [FreshProc EXCEPT !.pc = "read_responses"]
                                        ELSE FreshProc]
    /\ cycles = 1
    /\ faults = 0
    /\ geoRows = <<>> /\ geoData = <<>>

NextFlags == ReadResponses(1) \/ UpsertResponse(1)

SpecFlags == InitFlags /\ [][NextFlags]_vars

\* ------------------------------------ two overlapping update_aggregates
\* two invocations of the script that both synced a check-in and stand at the
\* entry of update_aggregates; every statement answers success=true
InitOverlap ==
    /\ now = 0
    /\ \E n \in 1..MaxCheckins : srcCheckins \in [1..n -> [agent : Agents, ts : {0, 1}]]
    /\ srcResponses = <<>> /\ srcShops = <<>>
    /\ dCheckins = [i \in DOMAIN srcCheckins |-> srcCheckins[i]]
    /\ dResponses = <<>> /\ dShops = <<>>
    /\ dPerf = EmptyBag /\ dHour = EmptyBag /\ dDay = EmptyBag
    /\ proc = [p \in Procs |->
                 [FreshProc EXCEPT !.pc = "perf_delete",
                                   !.nCheckins = Len(srcCheckins),
                                   !.candC = DOMAIN srcCheckins,
                                   !.tries = [i \in DOMAIN srcCheckins |->
                                                 [kind |-> "checkin", id |-> i, ok |-> TRUE]],
                                   !.rows = PerfSeq(AgentPerfRows(srcCheckins, srcResponses))]]
    /\ cycles = 2
    /\ faults = MaxFaults
    /\ geoRows = <<>> /\ geoData = <<>>

Rebuild(p) ==
    \/ PerfDelete(p) \/ PerfInsert(p)
    \/ HourDelete(p) \/ HourInsert(p)
    \/ DayDelete(p) \/ DayInsert(p)

NextOverlap == \E p \in Procs : Rebuild(p)

SpecOverlap == InitOverlap /\ [][NextOverlap]_vars

\* ------------------------------------------ export_data: the hotspots
MaxGeoRows == 3
Latitudes == {-1, 0, 1}
Longitudes == {0, 1}

\* WHERE latitude != 0 AND longitude != 0
GeoKept(r) == r.latitude # 0 /\ r.longitude # 0

RECURSIVE TopRows(_, _)
\* ORDER BY count DESC LIMIT n (equal counts in coordinate order)
TopRows(rows, n) ==
    IF rows = {} \/ n = 0 THEN <<>>
    ELSE LET top == {x \in rows : \A y \in rows : x.count >= y.count}
             r == CHOOSE x \in top : \A y \in top :
                      \/ x.latitude < y.latitude
                      \/ (x.latitude = y.latitude /\ x.longitude <= y.longitude)
         IN  <<r>> \o TopRows(rows \ {r}, n - 1)

\* SELECT latitude, longitude, COUNT(*) AS count FROM checkins WHERE ...
\* GROUP BY latitude, longitude ORDER BY count DESC LIMIT 100
Hotspots(rows) ==
    LET kept == {i \in DOMAIN rows : GeoKept(rows[i])}
        groups == {rows[i] : i \in kept}
    IN  TopRows({[latitude |-> g.latitude, longitude |-> g.longitude,
                  count |-> Cardinality({i \in kept : rows[i] = g})] : g \in groups},
                HotspotLimit)

\* the last block of export_data: geo_data is computed and written
ExportHotspots(p) ==
    /\ proc[p].pc = "export_geo"
    /\ geoData' = Hotspots(geoRows)
    /\ proc' = [proc EXCEPT ![p].pc = "exported"]
    /\ UNCHANGED <<now, srcVars, dCheckins, dResponses, dShops, derivedVars, cycles, faults, geoRows>>

\* any check-in coordinates, export_data standing before its hotspot query
InitExport ==
    /\ now = 0
    /\ srcCheckins = <<>> /\ srcResponses = <<>> /\ srcShops = <<>>
    /\ dCheckins = <<>> /\ dResponses = <<>> /\ dShops = <<>>
    /\ dPerf = EmptyBag /\ dHour = EmptyBag /\ dDay = EmptyBag
    /\ proc = [p \in Procs |-> IF p = 1 THEN [FreshProc EXCEPT !.pc = "export_geo"]
                                        ELSE FreshProc]
    /\ cycles = 0
    /\ faults = 0
    /\ \E n \in 0..MaxGeoRows :
          geoRows \in [1..n -> [latitude : Latitudes, longitude : Longitudes]]
    /\ geoData = <<>>

NextExport == ExportHotspots(1)

SpecExport == InitExport /\ [][NextExport]_vars

\* --------------------------------- the agent performance rebuild on its own
MaxPerfResponses == 2

\* a payload whose text holds "converted": "yes", and one whose text does not
PerfPayloads ==
    { [json |-> "object", conversion |-> "yes", bettingInfo |-> "no", like |-> TRUE],
      [json |-> "object", conversion |-> "no", bettingInfo |-> "no", like |-> FALSE] }

\* any check-ins and visit responses in the source (a check-in may own none, one
\* or several responses; a response may point at a check-in that is not there),
\* a run that synced the check-ins standing at main's test
InitPerf ==
    /\ now = 0
    /\ \E n \in 1..MaxCheckins : srcCheckins \in [1..n -> [agent : Agents, ts : {0}]]
    /\ \E m \in 0..MaxPerfResponses :
          srcResponses \in [1..m -> [checkin_id : 1..MaxCheckins, payload : PerfPayloads,
                                     created_at : {0}]]
    /\ srcShops = <<>>
    /\ dCheckins = [i \in DOMAIN srcCheckins |-> srcCheckins[i]]
    /\ dResponses = <<>> /\ dShops = <<>>
    /\ dPerf = EmptyBag /\ dHour = EmptyBag /\ dDay = EmptyBag
    /\ proc = [p \in Procs |->
                 IF p = 1
                 THEN [FreshProc EXCEPT !.pc = "decide",
                                        !.nCheckins = Len(srcCheckins),
                                        !.candC = DOMAIN srcCheckins,
                                        !.tries = [i \in DOMAIN srcCheckins |->
                                                      [kind |-> "checkin", id |-> i, ok |-> TRUE]]]
                 ELSE FreshProc]
    /\ cycles = 1
    /\ faults = 0
    /\ geoRows = <<>> /\ geoData = <<>>

NextPerf == Decide(1) \/ Rebuild(1) \/ Crash(1)

SpecPerf == InitPerf /\ [][NextPerf]_vars

\* ---------------------------------------------------------------- claims
\* the run has completed with exit code 0 and the source is as the run read it
Completed(p) == proc[p].pc = "done" /\ ~proc[p].srcChanged

\* the upsert calls of one kind made by the run, in order
TriesOf(p, kind) == SelectSeq(proc[p].tries, LAMBDA t : t.kind = kind)

\* the positions the run is at once sync_new_checkins has returned
AfterCheckins == (Running \ {"upsert_checkins"}) \cup {"done"}
\* the positions the run is at once sync_new_visit_responses has returned
AfterResponses == AfterCheckins \ {"read_responses", "upsert_responses"}

\* every candidate of the kind was tried exactly once, and n calls answered success=true
OneTryEach(p, kind, cand, n) ==
    LET t == TriesOf(p, kind)
    IN  /\ {t[i].id : i \in DOMAIN t} = cand
        /\ Len(t) = Cardinality(cand)
        /\ n = Cardinality({i \in DOMAIN t : t[i].ok})

FailedIds(p, kind) == {t.id : t \in {x \in Range(proc[p].tries) : x.kind = kind /\ ~x.ok}}

(* C2: after a cycle that completes (exit code 0), every check-in and visit     *)
(* response whose timestamp is at or after the cutoff (the clock when the sync  *)
(* function ran, less two hours) and whose upsert call did not answer           *)
(* success=false is in the destination under its identifier.                    *)
C2_WindowRowsPresent ==
    \A p \in Procs : Completed(p) =>
        /\ \A r \in CheckinRows(srcCheckins) :
              (r.ts >= proc[p].tCheckins - SinceHours /\ r.id \notin FailedIds(p, "checkin"))
                  => r.id \in DOMAIN dCheckins
        /\ \A r \in ResponseRows(srcResponses) :
              (r.created_at >= proc[p].tResponses - SinceHours
               /\ r.id \notin FailedIds(p, "response"))
                  => r.id \in DOMAIN dResponses

\* a completed cycle that mirrored a check-in lying exactly on the cutoff, left an
\* older one behind, and mirrored a response
C2_Witness ==
    /\ Completed(1)
    /\ \E r \in CheckinRows(srcCheckins) :
          r.ts = proc[1].tCheckins - SinceHours /\ r.id \in DOMAIN dCheckins
    /\ \E r \in CheckinRows(srcCheckins) :
          r.ts < proc[1].tCheckins - SinceHours /\ r.id \notin DOMAIN dCheckins
    /\ DOMAIN dResponses # {}

(* C6: within a cycle update_aggregates runs exactly when the cycle synced at   *)
(* least one check-in or one visit response: statements against the derived     *)
(* tables are issued only then, and a cycle that completes after syncing one    *)
(* has issued the three DELETEs.                                                *)
C6_RebuildOnlyWhenSynced ==
    \A p \in Procs :
        LET synced == proc[p].nCheckins > 0 \/ proc[p].nResponses > 0
        IN  /\ (proc[p].aggCalls > 0 \/ proc[p].pc \in Rebuilding) => synced
            /\ (proc[p].pc = "done" /\ synced) => proc[p].aggCalls >= 3

\* a completed cycle that synced a shop and nothing else, with check-ins in the
\* source, and issued no statement against a derived table
C6_Witness ==
    /\ proc[1].pc = "done"
    /\ proc[1].nShops > 0 /\ proc[1].nCheckins = 0 /\ proc[1].nResponses = 0
    /\ Len(srcCheckins) > 0
    /\ proc[1].aggCalls = 0

\* the derived tables hold exactly the rows of the aggregation over the source
DerivedMatchSource ==
    /\ dPerf = SetToBag(AgentPerfRows(srcCheckins, srcResponses))
    /\ dHour = SetToBag(HourlyRows(srcCheckins))
    /\ dDay = SetToBag(DailyRows(srcCheckins))

\* the run before this one completed, and the source was not written in between
SecondRun(p) == Completed(p) /\ proc[p].prevPc = "done" /\ ~proc[p].srcChangedBefore

AfterBrokenRebuild(p) ==
    /\ Completed(p)
    /\ proc[p].prevPc = "failed"
    /\ proc[p].prevAt \in Rebuilding \ {"perf_delete"}

ShopsBefore(p) == proc[p].prevDest[3]

\* the shops of the destination as the run found it are as they were
ShopsUntouched(p) ==
    \A i \in DOMAIN ShopsBefore(p) : i \in DOMAIN dShops /\ dShops[i] = ShopsBefore(p)[i]

\* sync_new_shops issued exactly one upsert for each identifier of ids
ShopUpserts(p, ids) ==
    LET t == TriesOf(p, "shop")
    IN  {t[i].id : i \in DOMAIN t} = ids /\ Len(t) = Cardinality(ids)

(* C7 (as claimed): sync_new_shops upserts exactly the source shops whose       *)
(* identifier is not in the destination and leaves every shop of the            *)
(* destination untouched.                                                       *)
C7_Claimed_OnlyNewShops ==
    \A p \in Procs : proc[p].pc = "decide" =>
        /\ ShopUpserts(p, DOMAIN srcShops \ DOMAIN ShopsBefore(p))
        /\ ShopsUntouched(p)

(* C7 (amended): when the destination answers SELECT id FROM shops with         *)
(* success=true, sync_new_shops upserts exactly the source shops whose          *)
(* identifier is not in the destination and leaves every shop of the            *)
(* destination untouched; when it answers success=false, sync_new_shops         *)
(* upserts every source shop.                                                   *)
C7_OnlyNewShopsWhenListed ==
    \A p \in Procs : proc[p].pc = "decide" =>
        /\ proc[p].selectOk =>
              /\ ShopUpserts(p, DOMAIN srcShops \ DOMAIN ShopsBefore(p))
              /\ ShopsUntouched(p)
        /\ ~proc[p].selectOk => ShopUpserts(p, DOMAIN srcShops)

\* destination {1,2,3}, source {1,2,3,4}: a single upsert, for shop 4; shop 1,
\* edited in the source since it was mirrored, is left as it was
C7_Witness ==
    /\ proc[1].pc = "decide"
    /\ proc[1].selectOk
    /\ DOMAIN ShopsBefore(1) = {1, 2, 3}
    /\ DOMAIN srcShops = {1, 2, 3, 4}
    /\ proc[1].tries = <<[kind |-> "shop", id |-> 4, ok |-> TRUE]>>
    /\ srcShops[1] = 1 /\ dShops[1] = 0
    /\ 4 \in DOMAIN dShops

\* sync_new_visit_responses has returned: every source row was tried once, and
\* every row whose call answered success=true is in the destination, whatever
\* its payload
ResponsesWritten(p) ==
    proc[p].pc = "select_shops" =>
        /\ OneTryEach(p, "response", DOMAIN srcResponses, proc[p].nResponses)
        /\ \A t \in Range(proc[p].tries) : t.ok => t.id \in DOMAIN dResponses

\* the flags written are 0 or 1 and the payload written is the source's
FlagsWellFormed ==
    \A id \in DOMAIN dResponses :
        /\ dResponses[id].converted \in {0, 1}
        /\ dResponses[id].already_betting \in {0, 1}
        /\ dResponses[id].payload = srcResponses[id].payload

(* C8 (as claimed): for every visit response written, converted is 1 exactly    *)
(* when the payload parses as JSON and conversion.converted is "yes", and       *)
(* already_betting is 1 exactly when bettingInfo.isBettingSomewhere is "yes";   *)
(* otherwise the flag is 0, and the row is written all the same.                *)
C8_Claimed_Flags ==
    /\ \A p \in Procs : ResponsesWritten(p)
    /\ FlagsWellFormed
    /\ \A id \in DOMAIN dResponses :
          LET pl == dResponses[id].payload
          IN  /\ dResponses[id].converted = 1 <=>
                    (pl.json = "object" /\ pl.conversion = "yes")
              /\ dResponses[id].already_betting = 1 <=>
                    (pl.json = "object" /\ pl.bettingInfo = "yes")

(* C8 (amended): for every visit response written, converted is 1 exactly when  *)
(* the payload parses as a JSON object, conversion.converted is "yes" and the   *)
(* value under bettingInfo, if any, is an object; already_betting is 1 exactly  *)
(* when the payload parses as a JSON object, bettingInfo.isBettingSomewhere is  *)
(* "yes" and the value under conversion, if any, is an object. Otherwise (text  *)
(* that is not JSON, JSON that is not an object, missing keys, a value under    *)
(* either key that is not an object) the flag is 0, and the row is written all  *)
(* the same.                                                                    *)
C8_FlagsBothOrNone ==
    /\ \A p \in Procs : ResponsesWritten(p)
    /\ FlagsWellFormed
    /\ \A id \in DOMAIN dResponses :
          LET pl == dResponses[id].payload
          IN  /\ dResponses[id].converted = 1 <=>
                    (pl.json = "object" /\ pl.conversion = "yes" /\ pl.bettingInfo # "scalar")
              /\ dResponses[id].already_betting = 1 <=>
                    (pl.json = "object" /\ pl.bettingInfo = "yes" /\ pl.conversion # "scalar")

\* a response whose conversion.converted is "yes" and whose bettingInfo is not an
\* object was written with both flags 0
C8_Witness ==
    /\ proc[1].pc = "select_shops"
    /\ \E id \in DOMAIN dResponses :
          /\ dResponses[id].payload.json = "object"
          /\ dResponses[id].payload.conversion = "yes"
          /\ dResponses[id].payload.bettingInfo = "scalar"
          /\ dResponses[id].converted = 0
          /\ dResponses[id].already_betting = 0

\* both overlapping rebuilds have finished
BothDone == \A p \in Procs : proc[p].pc = "done"

\* table t holds each row of rows once or twice, and no other row
OnceOrTwice(t, rows) ==
    /\ BagToSet(t) = rows
    /\ \A r \in rows : CopiesIn(r, t) \in {1, 2}

(* C9: nothing keeps two rebuilds against the same destination apart: whatever  *)
(* the other run is doing, a run's next DELETE or INSERT can be issued; and     *)
(* when both have finished (every statement having answered success=true) each  *)
(* derived table holds every row of the aggregation once or twice and no other  *)
(* row. The state in which a table differs from the aggregation (a row held     *)
(* twice) is reachable: C9_Witness.                                             *)
C9_OverlapNotPrevented ==
    /\ \A p \in Procs : proc[p].pc \in Rebuilding => ENABLED Rebuild(p)
    /\ BothDone =>
          /\ OnceOrTwice(dPerf, AgentPerfRows(srcCheckins, srcResponses))
          /\ OnceOrTwice(dHour, HourlyRows(srcCheckins))
          /\ OnceOrTwice(dDay, DailyRows(srcCheckins))

\* both rebuilds have finished, every statement answered success=true, and
\* agent_performance holds a row twice
C9_Witness ==
    /\ BothDone
    /\ \A p \in Procs : proc[p].aggFails = 0
    /\ dPerf # SetToBag(AgentPerfRows(srcCheckins, srcResponses))
    /\ \E r \in AgentPerfRows(srcCheckins, srcResponses) : CopiesIn(r, dPerf) = 2

\* the coordinate pairs of a sequence of rows
Pairs(rows) == {<<rows[i].latitude, rows[i].longitude>> : i \in DOMAIN rows}

(* C10 (as claimed): the hotspot ranking holds every distinct (latitude,        *)
(* longitude) pair of the check-ins except the origin (0,0), with its number of *)
(* check-ins, up to 100 pairs by descending count.                              *)
C10_Claimed_OnlyOriginExcluded ==
    proc[1].pc = "exported" =>
        /\ Cardinality(Pairs(geoRows) \ {<<0, 0>>}) <= HotspotLimit
              => Pairs(geoData) = Pairs(geoRows) \ {<<0, 0>>}
        /\ \A i \in DOMAIN geoData :
              geoData[i].count = Cardinality({j \in DOMAIN geoRows :
                    /\ geoRows[j].latitude = geoData[i].latitude
                    /\ geoRows[j].longitude = geoData[i].longitude})

\* the agents that have at least one check-in in the source
AgentsWithCheckins == {srcCheckins[i].agent : i \in DOMAIN srcCheckins}

\* the check-ins of agent a
CheckinsOf(a) == {i \in DOMAIN srcCheckins : srcCheckins[i].agent = a}

\* the visit responses that belong to a check-in of agent a and whose text holds
\* "converted": "yes"
MatchedResponses(a) ==
    {r \in DOMAIN srcResponses : /\ srcResponses[r].checkin_id \in CheckinsOf(a)
                                  /\ srcResponses[r].payload.like}

\* row is the agent_performance row of an agent the way C11 describes it
RowOfAgent(row, a) ==
    /\ row.agent_id = a
    /\ row.checkin_count = Cardinality(CheckinsOf(a))
    /\ MatchedResponses(a) = {} => row.conversions = 0 /\ row.conversion_rate = 0

\* the rebuild has finished and each of its statements answered success=true
RebuiltClean == proc[1].pc = "done" /\ proc[1].aggCalls > 0 /\ proc[1].aggFails = 0

(* C11: the agent performance rebuild emits exactly one row for every agent     *)
(* that has at least one check-in, with the agent's number of check-ins; an     *)
(* agent without a matched conversion is kept, with conversions = 0 and         *)
(* conversion_rate = 0.0. This holds of agent_perf as the rebuild computes it   *)
(* (the rows it is about to insert) and, when every statement answered          *)
(* success=true, of the table agent_performance it leaves.                      *)
C11_EveryAgentWithCheckinsHasRow ==
    /\ proc[1].pc = "perf_delete" =>
          /\ Len(proc[1].rows) = Cardinality(AgentsWithCheckins)
          /\ \A a \in AgentsWithCheckins :
                \E i \in DOMAIN proc[1].rows : RowOfAgent(proc[1].rows[i], a)
    /\ RebuiltClean =>
          /\ \A a \in AgentsWithCheckins :
                \E row \in BagToSet(dPerf) :
                   /\ RowOfAgent(row, a)
                   /\ CopiesIn(row, dPerf) = 1
                   /\ \A other \in BagToSet(dPerf) : other.agent_id = a => other = row
          /\ \A row \in BagToSet(dPerf) : row.agent_id \in AgentsWithCheckins

\* a finished rebuild over a source in which agent 1 has a matched conversion
\* and agent 2 has a check-in but none: agent 2's row is in agent_performance
\* with conversions = 0 and conversion_rate = 0.0
C11_Witness ==
    /\ RebuiltClean
    /\ AgentsWithCheckins = {1, 2}
    /\ MatchedResponses(1) # {}
    /\ MatchedResponses(2) = {}
    /\ \E row \in BagToSet(dPerf) :
          /\ row.agent_id = 2
          /\ row.checkin_count = 1
          /\ row.conversions = 0
          /\ row.conversion_rate = 0

\* a row's conversions do not exceed its check-ins and its rate (in hundredths
\* of a percent) lies between 0 and 100 percent
RateIsPercentage(row) ==
    /\ row.conversions <= row.checkin_count
    /\ row.conversion_rate >= 0
    /\ row.conversion_rate <= 10000

(* C12 (as claimed): every row of agent_performance the rebuild produces has    *)
(* conversions <= checkin_count and a conversion rate between 0 and 100, for    *)
(* any source state, check-ins that own several visit responses included.       *)
C12_Claimed_RateIsPercentage ==
    /\ proc[1].pc \in {"perf_delete", "perf_insert"} =>
          \A i \in DOMAIN proc[1].rows : RateIsPercentage(proc[1].rows[i])
    /\ \A row \in BagToSet(dPerf) : RateIsPercentage(row)

====
